---- MODULE Spec2Model ----
(* Model of the todo service (shared/todo_service.py), its HTTP adapter      *)
(* (backend/main.py) and the DynamoDB table operations they rely on.         *)
EXTENDS Integers, Sequences, FiniteSets, TLC

VARIABLES table, issued, last, calls, log

vars == <<table, issued, last, calls, log>>

\* ---------------------------------------------------------------- bounds
\* number of distinct instants datetime.utcnow() can return
MaxClock == 2

\* ------------------------------------------------------- input universes
Uuids == {"u1"}
IsoSeq == <<"t1", "t2", "t3", "t4">>
Titles == {"", "a", "b"}
Descriptions == {"", "x"}
Callers == {"http", "mcp"}

\* Python's None
None == [kind |-> "None"]

\* ids a caller can pass: ids handed out by create_todo, or any other string
KnownIds == DOMAIN issued \cup {"nonexistent"}

\* ------------------------------------------------- DynamoDB Table model
NoItems == [k \in {} |-> None]

\* variant: attributes the item already has are kept (if_not_exists)
Merge_if_not_exists(item, values) ==
    [f \in DOMAIN item \cup DOMAIN values |->
        IF f \in DOMAIN item THEN item[f] ELSE values[f]]

Merge(item, values) ==
    [f \in DOMAIN item \cup DOMAIN values |->
        IF f \in DOMAIN values THEN values[f] ELSE item[f]]

put_item(t, Item) ==
    [k \in DOMAIN t \cup {Item.id} |-> IF k = Item.id THEN Item ELSE t[k]]

get_item(t, Key) ==
    IF Key.id \in DOMAIN t
    THEN [ResponseMetadata |-> "ok", Item |-> t[Key.id]]
    ELSE [ResponseMetadata |-> "ok"]

scan(t) == [ResponseMetadata |-> "ok", Items |-> {t[k] : k \in DOMAIN t}]

delete_item(t, Key) == [k \in DOMAIN t \ {Key.id} |-> t[k]]

\* SET assignments of an UpdateExpression applied to an item
SetValues(UpdateExpression, ExpressionAttributeValues) ==
    [f \in {UpdateExpression[i][1] : i \in 1..Len(UpdateExpression)} |->
        LET i == CHOOSE j \in 1..Len(UpdateExpression) : UpdateExpression[j][1] = f
        IN  ExpressionAttributeValues[UpdateExpression[i][2]]]

\* variant: the item is replaced by the key and the SET values (put semantics)
update_item_replace(t, Key, UpdateExpression, ExpressionAttributeValues) ==
    LET new == Merge(Key, SetValues(UpdateExpression, ExpressionAttributeValues))
    IN  [table |-> [k \in DOMAIN t \cup {Key.id} |-> IF k = Key.id THEN new ELSE t[k]],
         response |-> [ResponseMetadata |-> "ok", Attributes |-> new]]

\* update_item without ConditionExpression, ReturnValues='ALL_NEW':
\* edits the item, or adds a new item holding the key when none exists
update_item(t, Key, UpdateExpression, ExpressionAttributeValues) ==
    LET old == IF Key.id \in DOMAIN t THEN t[Key.id] ELSE Key
        new == Merge(old, SetValues(UpdateExpression, ExpressionAttributeValues))
    IN  [table |-> [k \in DOMAIN t \cup {Key.id} |-> IF k = Key.id THEN new ELSE t[k]],
         response |-> [ResponseMetadata |-> "ok", Attributes |-> new]]

\* dict.get(key) with default None
Get(response, key) == IF key \in DOMAIN response THEN response[key] ELSE None

\* ------------------------------------------------------- TodoService
\* uuid4() never repeats an identifier
uuid4 == Uuids \ DOMAIN issued

utcnow == 1..MaxClock

isoformat(now) == IsoSeq[now]

\* argument records of create_todo: description may be left to its default
CreateArgs == {[title |-> x] : x \in Titles}
              \cup {[title |-> x, description |-> d] : x \in Titles, d \in Descriptions}

description_or_default(args) ==
    IF "description" \in DOMAIN args THEN args.description ELSE ""

\* variant: the description argument is not stored
create_item_no_description(id, title, description, now) ==
    [id |-> id, title |-> title, description |-> "",
     completed |-> FALSE, created_at |-> isoformat(now)]

create_item(id, title, description, now) ==
    [id |-> id, title |-> title, description |-> description,
     completed |-> FALSE, created_at |-> isoformat(now)]

create_todo(t, id, args, now) ==
    LET item == create_item(id, args.title, description_or_default(args), now)
    IN  [table |-> put_item(t, item), result |-> item]

list_todos(t) == LET response == scan(t) IN
    IF "Items" \in DOMAIN response THEN response.Items ELSE {}

get_todo(t, todo_id) == Get(get_item(t, [id |-> todo_id]), "Item")

\* argument records of update_todo: a parameter left at None is not a field
Absent == {[todo_id |-> id] : id \in KnownIds}
WithCompleted(S) == S \cup {a @@ [completed |-> b] : a \in S, b \in BOOLEAN}
WithTitle(S) == S \cup {a @@ [title |-> x] : a \in S, x \in Titles}
WithDescription(S) == S \cup {a @@ [description |-> x] : a \in S, x \in Descriptions}
UpdateArgs == WithDescription(WithTitle(WithCompleted(Absent)))

completed_expr(args) ==
    IF "completed" \in DOMAIN args THEN << <<"completed", ":c">> >> ELSE <<>>
\* variant: "if title is not None"
title_expr_is_not_none(args) ==
    IF "title" \in DOMAIN args THEN << <<"title", ":t">> >> ELSE <<>>

title_expr(args) ==
    IF "title" \in DOMAIN args /\ args.title # "" THEN << <<"title", ":t">> >> ELSE <<>>
description_expr(args) ==
    IF "description" \in DOMAIN args THEN << <<"description", ":d">> >> ELSE <<>>

update_expr(args) == completed_expr(args) \o title_expr(args) \o description_expr(args)

expr_values(args) ==
    LET e == update_expr(args) IN
    [p \in {e[i][2] : i \in 1..Len(e)} |->
        LET i == CHOOSE j \in 1..Len(e) : e[j][2] = p IN args[e[i][1]]]

\* variant: no early return on an empty expression
update_todo_unguarded(t, args) ==
    LET r == update_item(t, [id |-> args.todo_id], update_expr(args), expr_values(args))
    IN  [table |-> r.table, result |-> Get(r.response, "Attributes")]

update_todo(t, args) ==
    IF update_expr(args) = <<>>
    THEN [table |-> t, result |-> None]
    ELSE LET r == update_item(t, [id |-> args.todo_id], update_expr(args), expr_values(args))
         IN  [table |-> r.table, result |-> Get(r.response, "Attributes")]

\* variant: success is reported only when the item existed
delete_todo_checked(t, todo_id) ==
    [table |-> delete_item(t, [id |-> todo_id]), result |-> todo_id \in DOMAIN t]

delete_todo(t, todo_id) == [table |-> delete_item(t, [id |-> todo_id]), result |-> TRUE]

\* ------------------------------------------------------- HTTP adapter
\* "if not todo: raise HTTPException(404, 'Todo not found')"
NotFound(todo) == IF todo = None THEN 404 ELSE 200

\* --------------------------------------------------------------- actions
Init ==
    /\ table = NoItems
    /\ issued = [k \in {} |-> ""]
    /\ last = [op |-> "none"]
    /\ calls = [c \in Callers |-> [pc |-> "idle"]]
    /\ log = <<>>

\* POST /todos
Create(id, args, now) ==
    LET r == create_todo(table, id, args, now) IN
    /\ table' = r.table
    /\ issued' = [k \in DOMAIN issued \cup {id} |->
                    IF k = id THEN r.result.created_at ELSE issued[k]]
    /\ last' = [op |-> "create_todo", args |-> args, result |-> r.result, status |-> 200]

CreateTodo ==
    /\ \E id \in uuid4, args \in CreateArgs, now \in utcnow : Create(id, args, now)
    /\ UNCHANGED <<calls, log>>

\* GET /todos
ListTodos ==
    /\ last' = [op |-> "list_todos", items |-> list_todos(table), status |-> 200]
    /\ UNCHANGED <<table, issued, calls, log>>

\* GET /todos/{todo_id}
GetTodo ==
    \E todo_id \in KnownIds :
        LET todo == get_todo(table, todo_id) IN
        /\ last' = [op |-> "get_todo", args |-> [todo_id |-> todo_id],
                    result |-> todo, status |-> NotFound(todo)]
        /\ UNCHANGED <<table, issued, calls, log>>

\* PATCH /todos/{todo_id}
UpdateTodo ==
    \E args \in UpdateArgs :
        LET r == update_todo(table, args) IN
        /\ table' = r.table
        /\ last' = [op |-> "update_todo", args |-> args,
                    result |-> r.result, status |-> NotFound(r.result)]
        /\ UNCHANGED <<issued, calls, log>>

\* DELETE /todos/{todo_id}
DeleteTodo ==
    \E todo_id \in KnownIds :
        LET r == delete_todo(table, todo_id) IN
        /\ table' = r.table
        /\ last' = [op |-> "delete_todo", args |-> [todo_id |-> todo_id],
                    success |-> r.result, status |-> 200]
        /\ UNCHANGED <<issued, calls, log>>

Next == CreateTodo \/ ListTodos \/ GetTodo \/ UpdateTodo \/ DeleteTodo

Spec == Init /\ [][Next]_vars

\* ------------------------------------------- two callers updating at once
\* A todo is created and its initial field values open the write log.
CreateLogged ==
    /\ \E id \in uuid4, args \in CreateArgs, now \in utcnow :
        /\ Create(id, args, now)
        /\ log' = Append(log, [todo_id |-> id,
                               values |-> [completed |-> FALSE, title |-> args.title,
                                           description |-> description_or_default(args)]])
    /\ UNCHANGED calls

\* update_todo up to the store call: the expression is built from the arguments
BuildUpdate(c) ==
    /\ calls[c].pc = "idle"
    /\ \E args \in UpdateArgs :
        /\ args.todo_id \in DOMAIN table
        /\ calls' = [calls EXCEPT ![c] =
                        IF update_expr(args) = <<>>
                        THEN [pc |-> "done", args |-> args, result |-> None]
                        ELSE [pc |-> "built", args |-> args]]
    /\ UNCHANGED <<table, issued, last, log>>

\* the single update_item call and the return of its Attributes
StoreUpdate(c) ==
    /\ calls[c].pc = "built"
    /\ LET r == update_todo(table, calls[c].args) IN
        /\ table' = r.table
        /\ calls' = [calls EXCEPT ![c] =
                        [pc |-> "done", args |-> calls[c].args, result |-> r.result]]
        /\ log' = Append(log, [todo_id |-> calls[c].args.todo_id,
                               values |-> SetValues(update_expr(calls[c].args),
                                                    expr_values(calls[c].args))])
    /\ UNCHANGED <<issued, last>>

NextConc == CreateLogged \/ \E c \in Callers : BuildUpdate(c) \/ StoreUpdate(c)

SpecConc == Init /\ [][NextConc]_vars

\* ---------------------------------------------------------------- helpers
Fields == {"id", "title", "description", "completed", "created_at"}
Supplied(args) == DOMAIN args \ {"todo_id"}
Without(args, f) == [g \in DOMAIN args \ {f} |-> args[g]]
SameField(old, new, f) ==
    /\ (f \in DOMAIN old) = (f \in DOMAIN new)
    /\ f \in DOMAIN old => new[f] = old[f]
IsUpdate(l) == l.op = "update_todo"

\* ------------------------------------------------------------------ C1
\* C1: for every id that is not a key of the store, get_todo(id) returns
\* absent and update_todo(id, ...) with at least one effective field returns
\* absent; GET and PATCH answer 404.
NotFoundPropagation ==
    [][/\ (last'.op = "get_todo" /\ last'.args.todo_id \notin DOMAIN table)
            => (last'.result = None /\ last'.status = 404)
       /\ (IsUpdate(last') /\ last'.args.todo_id \notin DOMAIN table
             /\ update_expr(last'.args) # <<>>)
            => (last'.result = None /\ last'.status = 404)]_vars

\* ------------------------------------------------------------------ C2
\* C2: every record held in the store has all five fields and a boolean
\* completed.
RecordShape ==
    \A k \in DOMAIN table :
        /\ DOMAIN table[k] = Fields
        /\ table[k].completed \in BOOLEAN

\* ------------------------------------------------------------------ C3
\* C3 as stated: for every existing todo and every subset S of the three
\* parameters (title non-empty when supplied), after update_todo each field in
\* S holds the supplied value, every other field holds its prior value, and
\* the returned record equals the stored post-update record.
UpdateFrame(old, new, args) ==
    /\ \A f \in Supplied(args) : f \in DOMAIN new /\ new[f] = args[f]
    /\ \A f \in (DOMAIN old \cup DOMAIN new) \ Supplied(args) : SameField(old, new, f)

TitleNonEmpty(args) == "title" \in DOMAIN args => args.title # ""

PartialUpdateAnySubset ==
    [][(IsUpdate(last') /\ last'.args.todo_id \in DOMAIN table /\ TitleNonEmpty(last'.args))
        => /\ last'.args.todo_id \in DOMAIN table'
           /\ UpdateFrame(table[last'.args.todo_id], table'[last'.args.todo_id], last'.args)
           /\ last'.result = table'[last'.args.todo_id]]_vars

\* C3 amended: the same for every NON-EMPTY subset S; for the empty subset the
\* record is left as it was and the call returns absent.
PartialUpdateIsolation ==
    [][(IsUpdate(last') /\ last'.args.todo_id \in DOMAIN table /\ TitleNonEmpty(last'.args))
        => /\ last'.args.todo_id \in DOMAIN table'
           /\ UpdateFrame(table[last'.args.todo_id], table'[last'.args.todo_id], last'.args)
           /\ last'.result = IF Supplied(last'.args) = {} THEN None
                             ELSE table'[last'.args.todo_id]]_vars

PartialUpdateWitness ==
    /\ IsUpdate(last)
    /\ Supplied(last.args) = {"title", "completed"}
    /\ last.args.todo_id \in DOMAIN issued
    /\ last.result # None
    /\ DOMAIN last.result = Fields
    /\ last.result.title = "b" /\ last.result.completed /\ last.result.description = "x"
    /\ table[last.args.todo_id] = last.result

\* ------------------------------------------------------------------ C4
\* C4: create_todo(t, d) returns a record with an id not already in the store,
\* completed = false, description = d ("" by default), and a get_todo on that
\* id right after it returns a record equal to the created one.
CreateGetRoundTrip ==
    [][/\ issued' # issued
            => /\ last'.op = "create_todo"
               /\ DOMAIN last'.result = Fields
               /\ last'.result.id \notin DOMAIN table
               /\ last'.result.title = last'.args.title
               /\ last'.result.completed = FALSE
               /\ last'.result.description = description_or_default(last'.args)
               /\ get_todo(table', last'.result.id) = last'.result
       /\ (last.op = "create_todo" /\ last'.op = "get_todo"
             /\ last'.args.todo_id = last.result.id)
            => (last'.result = last.result /\ last'.status = 200)]_vars

CreateGetWitness ==
    /\ last.op = "get_todo"
    /\ last.status = 200
    /\ DOMAIN last.result = Fields
    /\ last.result.completed = FALSE
    /\ last.result.title = "a" /\ last.result.description = "x"
    /\ last.result.created_at = issued[last.args.todo_id]

\* ------------------------------------------------------------------ C5
\* C5: delete_todo(id) reports success whether or not id is stored, a second
\* delete_todo(id) reports success too and leaves the store as the first left
\* it, and get_todo(id) after the delete returns absent.
IdempotentDelete ==
    [][/\ last'.op = "delete_todo"
            => /\ last'.success = TRUE
               /\ last'.status = 200
               /\ get_todo(table', last'.args.todo_id) = None
       /\ (last.op = "delete_todo" /\ last'.op = "delete_todo"
             /\ last'.args.todo_id = last.args.todo_id)
            => table' = table
       /\ (last.op = "delete_todo" /\ last'.op = "get_todo"
             /\ last'.args.todo_id = last.args.todo_id)
            => (last'.result = None /\ last'.status = 404)]_vars

IdempotentDeleteWitness ==
    /\ last.op = "delete_todo"
    /\ last.success = TRUE
    /\ last.args.todo_id \in DOMAIN issued
    /\ last.args.todo_id \notin DOMAIN table
    /\ "nonexistent" \in DOMAIN table

\* ------------------------------------------------------------------ C6
\* C6: whenever a record is stored under an id, its id field equals its key
\* and its created_at equals the value assigned by the create_todo that
\* produced it.
ImmutableIdCreatedAt ==
    \A k \in DOMAIN table :
        /\ table[k].id = k
        /\ k \in DOMAIN issued
        /\ "created_at" \in DOMAIN table[k]
        /\ table[k].created_at = issued[k]

\* ------------------------------------------------------------------ C7
\* C7: a record enters the store only through create_todo; update_todo and
\* delete_todo never add a key, and a deleted id does not reappear.
Lifecycle ==
    [][/\ (DOMAIN table' \ DOMAIN table # {}) => last'.op = "create_todo"
       /\ IsUpdate(last') => DOMAIN table' = DOMAIN table
       /\ \A k \in DOMAIN issued \ DOMAIN table : k \notin DOMAIN table']_vars

\* ------------------------------------------------------------------ C8
\* C8: update_todo with completed, title and description all absent returns
\* absent and leaves the store unchanged, whether or not the id exists; the
\* PATCH answers 404.
ZeroFieldUpdate ==
    [][(IsUpdate(last') /\ Supplied(last'.args) = {})
        => (last'.result = None /\ table' = table /\ last'.status = 404)]_vars

ZeroFieldWitness ==
    /\ IsUpdate(last)
    /\ Supplied(last.args) = {}
    /\ last.args.todo_id \in DOMAIN table
    /\ DOMAIN table[last.args.todo_id] = Fields
    /\ last.status = 404

\* ------------------------------------------------------------------ C9
\* C9: for every existing todo, update_todo with title = "" leaves the stored
\* title unchanged and acts exactly as the same call without title: the other
\* supplied fields are applied, and with title = "" alone the call returns
\* absent and the store is unchanged.
EmptyTitleUpdate ==
    [][(IsUpdate(last') /\ last'.args.todo_id \in DOMAIN table
          /\ "title" \in DOMAIN last'.args /\ last'.args.title = "")
        => /\ last'.args.todo_id \in DOMAIN table'
           /\ SameField(table[last'.args.todo_id], table'[last'.args.todo_id], "title")
           /\ UpdateFrame(table[last'.args.todo_id], table'[last'.args.todo_id],
                          Without(last'.args, "title"))
           /\ Supplied(last'.args) = {"title"}
                => (last'.result = None /\ table' = table)
           /\ Supplied(last'.args) # {"title"}
                => last'.result = table'[last'.args.todo_id]]_vars

EmptyTitleWitness ==
    /\ IsUpdate(last)
    /\ Supplied(last.args) = {"title", "description"}
    /\ last.args.title = ""
    /\ last.result # None
    /\ DOMAIN last.result = Fields
    /\ last.result.title = "a"
    /\ last.result.description = "x"

\* ----------------------------------------------------------------- C10
\* C10: with two callers running update_todo at once on an existing record,
\* each field of the record always holds the value of the last update (or,
\* failing one, of the create) that wrote that field: updates of disjoint
\* fields are both kept and no field holds a value nobody supplied.
Writes(id, f) ==
    {i \in 1..Len(log) : log[i].todo_id = id /\ f \in DOMAIN log[i].values}

LastWritten(id, f) ==
    LET i == CHOOSE j \in Writes(id, f) : \A k \in Writes(id, f) : k <= j
    IN  log[i].values[f]

LastWritePerField ==
    \A id \in DOMAIN table :
        \A f \in {"completed", "title", "description"} :
            /\ Writes(id, f) # {}
            /\ f \in DOMAIN table[id]
            /\ table[id][f] = LastWritten(id, f)

LastWriteWitness ==
    /\ \A c \in Callers : calls[c].pc = "done"
    /\ Len(log) = 3
    /\ DOMAIN log[2].values = {"title", "completed"}
    /\ DOMAIN log[3].values = {"title", "description"}
    /\ log[2].values.title # log[3].values.title
    /\ log[1].values.description # log[3].values.description
    /\ log[1].values.completed # log[2].values.completed
    /\ calls["http"].args.todo_id = calls["mcp"].args.todo_id
====
